---- MODULE Spec2Model ----
(***************************************************************************)
(* The transcription dispatch pipeline of whatsapp_transcriber_go.         *)
(*                                                                         *)
(* The repository holds two drafts of main / handleMessage /               *)
(* processAudioMessage:                                                    *)
(*   "groq" : src/groq_transcriber.go, lines 82-281                        *)
(*   "wa"   : src/whatsapp_handler.go                                      *)
(* Both call TranscribeAudioGroq (src/groq_transcriber.go, lines 15-80).   *)
(* The variable draft says which of the two is the one that runs.          *)
(*                                                                         *)
(* Strings are sequences of one-character strings.                         *)
(***************************************************************************)
EXTENDS Integers, Sequences, FiniteSets, TLC

\* The number of message events the transport delivers in one run.
MaxEvents == 2

Drafts == {"groq", "wa"}

---------------------------------------------------------------------------
(* strings *)

Whitespace == {" ", "\t", "\n", "\r"}

RECURSIVE TrimLeft(_)
TrimLeft(s) ==
    IF s # <<>> /\ Head(s) \in Whitespace THEN TrimLeft(Tail(s)) ELSE s

RECURSIVE TrimRight(_)
TrimRight(s) ==
    IF s # <<>> /\ s[Len(s)] \in Whitespace
    THEN TrimRight(SubSeq(s, 1, Len(s) - 1))
    ELSE s

\* strings.TrimSpace
TrimSpace(s) == TrimRight(TrimLeft(s))

\* strings.Split(s, "\n"): cur is the line being read
RECURSIVE SplitLines(_, _)
SplitLines(s, cur) ==
    IF s = <<>> THEN <<cur>>
    ELSE IF Head(s) = "\n" THEN <<cur>> \o SplitLines(Tail(s), <<>>)
    ELSE SplitLines(Tail(s), Append(cur, Head(s)))

Range(f) == {f[i] : i \in DOMAIN f}

\* the strings over chars of length at most n
Strings(chars, n) == UNION {[1 .. k -> chars] : k \in 0 .. n}

---------------------------------------------------------------------------
(* the exclusion set *)

\* exclude.txt: absent, or present with its bytes
NoFile == [exists |-> FALSE, data |-> <<>>]
FileOf(data) == [exists |-> TRUE, data |-> data]

\* loadExcludedNumbers without strings.TrimSpace
loadExcludedNumbersUntrimmed(file) ==
    IF ~file.exists THEN {}
    ELSE Range(SplitLines(file.data, <<>>)) \ {<<>>}

\* The map[string]bool loadExcludedNumbers returns holds only true values:
\* it is the set of its keys, and a lookup is membership.
loadExcludedNumbers(file) ==
    IF ~file.exists THEN {}
    ELSE {TrimSpace(l) : l \in Range(SplitLines(file.data, <<>>))} \ {<<>>}

\* EXCLUDED_NUMBERS[sender], the lookup of handleMessage
IsExcluded(excluded, sender) == sender \in excluded

Senders == {<<"a">>, <<"b">>}

\* The contents of exclude.txt a run may start with.
ExcludeFiles == {FileOf(<<" ", "a", "\r", "\n", "\n">>)}

\* The longest exclude.txt, in characters, that loadExcludedNumbers is
\* applied to on its own, and the characters such a file is made of.
MaxFileLen == 3
FileChars == {"a", "b", " ", "\r", "\n"}

\* exclude.txt as loadExcludedNumbers may find it: absent, empty, or any
\* text over FileChars.
LoadFiles == {NoFile} \cup {FileOf(s) : s \in Strings(FileChars, MaxFileLen)}

---------------------------------------------------------------------------
(* events *)

\* events.Message, the fields the handlers read.  Audio: "none" (no audio
\* message), "url" (the URL serves the audio bytes), "enc" (the audio is
\* available only as an encrypted media reference).  MediaType is "audio"
\* only for a message that has an audio message.
EventInputs ==
    {e \in [IsGroup : BOOLEAN, Sender : Senders,
            Audio : {"none", "url", "enc"}, MediaType : {"audio", "other"}] :
        e.MediaType = "audio" => e.Audio # "none"}

\* The groq draft never reads MediaType, and the wa draft asks the transport
\* for the audio whatever the reference is: a field the running draft does
\* not read takes one value, the other values give the same runs.
EventInputsOf(d) ==
    {e \in EventInputs :
        IF d = "groq" THEN e.MediaType = "other" ELSE e.Audio # "url"}

\* evt.Info.Chat: the group, or the sender's own conversation
ChatOf(evt) == IF evt.IsGroup THEN <<"g">> ELSE evt.Sender

\* The text field of the backend's 200 bodies.
Transcripts == {<<" ", "o", "i", "\n">>}

\* What json.Decode makes of a 200 body that is JSON: its text field, or ""
\* when it has none.
Decoded200 == Transcripts \cup {<<>>}

---------------------------------------------------------------------------
(* the transcription backends *)

\* A Go error: nil, or what kind it is and the text it carries.  Only the
\* error of a status other than 200 carries a text the caller did not fix.
NoErr == [kind |-> "nil", msg |-> <<>>]
Err(kind, msg) == [kind |-> kind, msg |-> msg]

\* A JSON value as encoding/json sees it: its type t, its characters s when
\* it is a string, its text member when it is an object.
Scalar(t, s) == [t |-> t, s |-> s]
JAbsent == Scalar("absent", <<>>)
JScalars ==
    {JAbsent, Scalar("null", <<>>), Scalar("num", <<>>)}
        \cup {Scalar("str", x) : x \in Decoded200}
JScalar(v) == [t |-> v.t, s |-> v.s, text |-> JAbsent]
JObject(text) == [t |-> "obj", s |-> <<>>, text |-> text]
JValues == {JScalar(v) : v \in JScalars} \cup {JObject(v) : v \in JScalars}

\* What encoding/json makes of a response body: not JSON, null, an array, or
\* an object with its members text and result.
Doc(top, text, result) == [top |-> top, text |-> text, result |-> result]
InvalidDoc == Doc("invalid", JScalar(JAbsent), JScalar(JAbsent))
Docs ==
    {Doc(top, JScalar(JAbsent), JScalar(JAbsent)) :
        top \in {"invalid", "null", "array"}}
        \cup {Doc("object", a, b) : a \in JValues, b \in JValues}

\* the body {"text": x}, or {} for the empty x
DocDecodingTo(x) ==
    Doc("object",
        IF x = <<>> THEN JScalar(JAbsent) ELSE JScalar(Scalar("str", x)),
        JScalar(JAbsent))

\* http.StatusOK, and the statuses a backend answers with
StatusOK == 200
Statuses == {StatusOK, 204, 500}

\* What client.Do returns: an error (a timeout is one), or a response with
\* its status, the bytes of its body and what they parse to.
TransportError == [err |-> TRUE, status |-> 0, raw |-> <<>>, doc |-> InvalidDoc]
Answer(status, raw, doc) ==
    [err |-> FALSE, status |-> status, raw |-> raw, doc |-> doc]
Answers ==
    {TransportError}
        \cup {Answer(st, raw, doc) :
                st \in Statuses, raw \in {<<>>, <<"x">>}, doc \in Docs}

\* The answers the pipeline's backend call gets: one for each way
\* TranscribeAudioGroq returns from client.Do on.
PipeAnswers ==
    {TransportError, Answer(500, <<"x">>, InvalidDoc),
     Answer(StatusOK, <<>>, InvalidDoc)}
        \cup {Answer(StatusOK, <<>>, DocDecodingTo(x)) : x \in Decoded200}

\* "transcription failed: "
FailedPrefix ==
    <<"t", "r", "a", "n", "s", "c", "r", "i", "p", "t", "i", "o", "n", " ",
      "f", "a", "i", "l", "e", "d", ":", " ">>

\* fmt.Errorf("transcription failed: %s", string(bodyBytes))
StatusError(raw) == Err("status", FailedPrefix \o raw)

\* json.Decode into struct{Text string `json:"text"`}: a null, a missing
\* member and a null member leave Text empty; a member of another type, an
\* array and a body that is not JSON are errors.
GroqDecode(doc) ==
    IF doc.top = "null" THEN [text |-> <<>>, err |-> NoErr]
    ELSE IF doc.top # "object" THEN [text |-> <<>>, err |-> Err("decode", <<>>)]
    ELSE IF doc.text.t = "str" THEN [text |-> doc.text.s, err |-> NoErr]
    ELSE IF doc.text.t \in {"absent", "null"}
    THEN [text |-> <<>>, err |-> NoErr]
    ELSE [text |-> <<>>, err |-> Err("decode", <<>>)]

\* GroqAnswer without its status check
GroqAnswerIgnoresStatus(answer) ==
    IF answer.err THEN [text |-> <<>>, err |-> Err("do", <<>>)]
    ELSE GroqDecode(answer.doc)

\* TranscribeAudioGroq from client.Do's return on
GroqAnswer(answer) ==
    IF answer.err THEN [text |-> <<>>, err |-> Err("do", <<>>)]
    ELSE IF answer.status # StatusOK
    THEN [text |-> <<>>, err |-> StatusError(answer.raw)]
    ELSE GroqDecode(answer.doc)

\* filepath.Base of a path given by its elements
Base(path) == path[Len(path)]

FormField(name, value) == [name |-> name, filename |-> "", value |-> value]

\* GroqForm writing the prompt field whatever the prompt is
GroqFormAlwaysPrompt(audioPath, fileData, prompt, language) ==
    <<[name |-> "file", filename |-> Base(audioPath), value |-> fileData],
      FormField("model", "whisper-large-v3"),
      FormField("prompt", prompt)>>
    \o (IF language # "" THEN <<FormField("language", language)>> ELSE <<>>)
    \o <<FormField("response_format", "json"),
          FormField("temperature", "0.0")>>

\* The multipart form of TranscribeAudioGroq, field after field.
GroqForm(audioPath, fileData, prompt, language) ==
    <<[name |-> "file", filename |-> Base(audioPath), value |-> fileData],
      FormField("model", "whisper-large-v3")>>
    \o (IF prompt # "" THEN <<FormField("prompt", prompt)>> ELSE <<>>)
    \o (IF language # "" THEN <<FormField("language", language)>> ELSE <<>>)
    \o <<FormField("response_format", "json"),
          FormField("temperature", "0.0")>>

\* The request TranscribeAudioGroq posts, none when the key is unset or the
\* file cannot be read.
NoRequest == [posted |-> FALSE, form |-> <<>>]
GroqRequest(key, audioPath, file, prompt, language) ==
    IF ~key \/ ~file.exists THEN NoRequest
    ELSE [posted |-> TRUE,
          form |-> GroqForm(audioPath, file.data, prompt, language)]

\* TranscribeAudioGroq: what it returns, given the answer to its request
TranscribeAudioGroq(key, file, answer) ==
    IF ~key THEN [text |-> <<>>, err |-> Err("noKey", <<>>)]
    ELSE IF ~file.exists THEN [text |-> <<>>, err |-> Err("readFile", <<>>)]
    ELSE GroqAnswer(answer)

\* The map CFTranscriber.Transcribe returns is the parsed body; a JSON null
\* decodes to the nil map.
NoMap == InvalidDoc

\* CFTranscriber.Transcribe
CfTranscriberTranscribe(file, answer) ==
    IF ~file.exists THEN [result |-> NoMap, err |-> Err("readFile", <<>>)]
    ELSE IF answer.err THEN [result |-> NoMap, err |-> Err("do", <<>>)]
    ELSE IF answer.status # StatusOK
    THEN [result |-> NoMap, err |-> StatusError(answer.raw)]
    ELSE IF answer.doc.top \notin {"null", "object"}
    THEN [result |-> NoMap, err |-> Err("decode", <<>>)]
    ELSE [result |-> answer.doc, err |-> NoErr]

\* CfText reading the text member of the body instead of result's
CfTextOfBody(result) ==
    IF result.top = "object" /\ result.text.t = "str"
    THEN [text |-> result.text.s, err |-> NoErr]
    ELSE [text |-> <<>>, err |-> Err("shape", <<>>)]

\* result["result"].(map[string]interface{}), res["text"].(string)
CfText(result) ==
    IF /\ result.top = "object"
       /\ result.result.t = "obj"
       /\ result.result.text.t = "str"
    THEN [text |-> result.result.text.s, err |-> NoErr]
    ELSE [text |-> <<>>, err |-> Err("shape", <<>>)]

\* CfTranscribe
CfTranscribe(accountID, apiToken, file, answer) ==
    IF ~accountID \/ ~apiToken
    THEN [text |-> <<>>, err |-> Err("noCredentials", <<>>)]
    ELSE LET r == CfTranscriberTranscribe(file, answer)
         IN  IF r.err # NoErr THEN [text |-> <<>>, err |-> r.err]
             ELSE CfText(r.result)

\* The arguments of the calls made on their own.
Prompts == {"", "p"}
Languages == {"", "pt"}
AudioPath == <<"messages", "1.ogg">>
AudioFiles == {NoFile, FileOf(<<"o", "g", "g">>)}

\* The names os.CreateTemp can give a file of MESSAGES_DIR.  Each task
\* creates at most one, so a free name always exists, as it does for the
\* random names of the real directory.
TempNames == 1 .. MaxEvents

VARIABLES
    draft,            \* which draft of the handlers runs
    GROQ_API_KEY,     \* whether the environment sets it
    excludeFile,      \* exclude.txt
    mainPc,           \* where main is
    EXCLUDED_NUMBERS, \* the global exclusion set
    loads,            \* how many times EXCLUDED_NUMBERS was assigned
    tasks,            \* one record per goroutine `go handleMessage(client, v)`
    messagesDir,      \* MESSAGES_DIR: temp file name -> content
    downloadsDir,     \* downloads/: the IDs whose <ID>.ogg exists
    call              \* a call of a backend function on its own: its
                      \* arguments, the network's answer, what it returned

vars == <<draft, GROQ_API_KEY, excludeFile, mainPc, EXCLUDED_NUMBERS, loads,
          tasks, messagesDir, downloadsDir, call>>

\* no call on its own was made
NoCall == [fn |-> "none"]

Init ==
    /\ draft \in Drafts
    /\ GROQ_API_KEY \in BOOLEAN
    /\ excludeFile \in ExcludeFiles
    /\ mainPc = "boot"
    /\ EXCLUDED_NUMBERS = {}
    /\ loads = 0
    /\ tasks = <<>>
    /\ messagesDir = [n \in TempNames |-> "absent"]
    /\ downloadsDir = {}
    /\ call = NoCall

---------------------------------------------------------------------------
(* main *)

pipeVars == <<tasks, messagesDir, downloadsDir>>
envVars == <<draft, GROQ_API_KEY, excludeFile, call>>

\* godotenv.Load (its failure is only logged), setupDirectories
MainBoot ==
    /\ mainPc = "boot"
    /\ \E ok \in BOOLEAN : mainPc' = IF ok THEN "load" ELSE "fatal"
    /\ UNCHANGED <<envVars, EXCLUDED_NUMBERS, loads, pipeVars>>

\* EXCLUDED_NUMBERS = loadExcludedNumbers("exclude.txt")
MainLoad ==
    /\ mainPc = "load"
    /\ EXCLUDED_NUMBERS' = loadExcludedNumbers(excludeFile)
    /\ loads' = loads + 1
    /\ mainPc' = "store"
    /\ UNCHANGED <<envVars, pipeVars>>

\* sqlstore.New, container.GetFirstDevice
MainStore ==
    /\ mainPc = "store"
    /\ \E ok \in BOOLEAN : mainPc' = IF ok THEN "register" ELSE "fatal"
    /\ UNCHANGED <<envVars, EXCLUDED_NUMBERS, loads, pipeVars>>

\* whatsmeow.NewClient, client.AddEventHandler
MainRegister ==
    /\ mainPc = "register"
    /\ mainPc' = "connect"
    /\ UNCHANGED <<envVars, EXCLUDED_NUMBERS, loads, pipeVars>>

\* client.Connect
MainConnect ==
    /\ mainPc = "connect"
    /\ \E ok \in BOOLEAN : mainPc' = IF ok THEN "running" ELSE "fatal"
    /\ UNCHANGED <<envVars, EXCLUDED_NUMBERS, loads, pipeVars>>

\* main up to the assignment of EXCLUDED_NUMBERS, for every exclude.txt
InitLoad ==
    /\ draft \in Drafts
    /\ GROQ_API_KEY = TRUE
    /\ excludeFile \in LoadFiles
    /\ mainPc = "boot"
    /\ EXCLUDED_NUMBERS = {}
    /\ loads = 0
    /\ tasks = <<>>
    /\ messagesDir = [n \in TempNames |-> "absent"]
    /\ downloadsDir = {}
    /\ call = NoCall

NextLoad ==
    \/ MainBoot
    \/ MainLoad

SpecLoad == InitLoad /\ [][NextLoad]_vars

---------------------------------------------------------------------------
(* the event handler *)

NewTask(evt, id) ==
    [evt |-> evt, ID |-> id, pc |-> "start", outcome |-> "",
     tempFilePath |-> 0, body |-> "none", transcription |-> <<>>,
     hist |-> <<>>, sent |-> <<>>]

Terminated(t) == t.pc = "done"

\* CallbackWaitsFor of a callback that calls handleMessage without `go`
CallbackWaitsForHandler(ts) == {i \in DOMAIN ts : ts[i].pc # "done"}

\* The tasks the event-handler callback waits for before it returns: none,
\* it starts handleMessage with `go`.
CallbackWaitsFor(ts) == {}

\* The transport calls the handler with an *events.Message.
Deliver(e) ==
    /\ mainPc = "running"
    /\ Len(tasks) < MaxEvents
    /\ CallbackWaitsFor(tasks) = {}
    /\ tasks' = Append(tasks, NewTask(e, Len(tasks) + 1))
    /\ UNCHANGED <<envVars, mainPc, EXCLUDED_NUMBERS, loads, messagesDir,
                   downloadsDir>>

DeliverAny == \E e \in EventInputsOf(draft) : Deliver(e)

Goto(t, pc, label) == [t EXCEPT !.pc = pc, !.hist = Append(@, label)]

Finish(t, outcome, label) ==
    [t EXCEPT !.pc = "done", !.outcome = outcome, !.hist = Append(@, label)]

SetTask(i, t) == tasks' = [tasks EXCEPT ![i] = t]

\* FilterVerdict without its group check
FilterVerdictNoGroupCheck(excluded, evt) ==
    IF IsExcluded(excluded, evt.Sender) THEN "IgnoredExcluded"
    ELSE IF evt.Audio = "none" THEN "IgnoredNonAudio"
    ELSE "process"

\* handleMessage's filters: the first that applies ends the event
FilterVerdict(excluded, evt) ==
    IF evt.IsGroup THEN "IgnoredGroup"
    ELSE IF IsExcluded(excluded, evt.Sender) THEN "IgnoredExcluded"
    ELSE IF evt.Audio = "none" THEN "IgnoredNonAudio"
    ELSE "process"

\* How processAudioMessage asks for the audio: the groq draft with
\* http.Get(audioMsg.URL), the wa draft with client.DownloadToFile.
DownloadCall(d) == IF d = "groq" THEN "httpGet" ELSE "transportDownload"

\* The filters of handleMessage and, for an audio message that passes them,
\* processAudioMessage up to its download call.
Filtered(d, excluded, t) ==
    LET v == FilterVerdict(excluded, t.evt)
    IN  IF v = "process"
        THEN Goto(Goto(t, "downloading", "filtersPassed"),
                  "downloading", DownloadCall(d))
        ELSE Finish(t, v, "filtered")

\* The wa draft's handleMessage first saves the audio of a message of media
\* type "audio" under downloads/<ID>.ogg.
SavesFirst(d, evt) == d = "wa" /\ evt.MediaType = "audio" /\ evt.Audio # "none"

\* AfterLookup of a map whose index expression inserts the key it misses
AfterLookupInserts(excluded, sender) == excluded \cup {sender}

\* The map after `EXCLUDED_NUMBERS[sender]`: indexing a Go map reads it,
\* also for a key it does not have.
AfterLookup(excluded, sender) == excluded

\* The map after handleMessage's filters, which look the sender up unless
\* the message is from a group.
AfterFilters(excluded, evt) ==
    IF evt.IsGroup THEN excluded ELSE AfterLookup(excluded, evt.Sender)

HandleMessage(i) ==
    /\ tasks[i].pc = "start"
    /\ \/ /\ SavesFirst(draft, tasks[i].evt)
          /\ \E fail \in {"mkdirFail", "writeFail"} :
                SetTask(i, Finish(tasks[i], "SaveFailed", "error"))
          /\ UNCHANGED <<downloadsDir, EXCLUDED_NUMBERS>>
       \/ /\ SavesFirst(draft, tasks[i].evt)
          /\ downloadsDir' = downloadsDir \cup {tasks[i].ID}
          /\ SetTask(i, Filtered(draft, EXCLUDED_NUMBERS,
                                 Goto(tasks[i], "start", "saved")))
          /\ EXCLUDED_NUMBERS' = AfterFilters(EXCLUDED_NUMBERS, tasks[i].evt)
       \/ /\ ~SavesFirst(draft, tasks[i].evt)
          /\ SetTask(i, Filtered(draft, EXCLUDED_NUMBERS, tasks[i]))
          /\ EXCLUDED_NUMBERS' = AfterFilters(EXCLUDED_NUMBERS, tasks[i].evt)
          /\ UNCHANGED downloadsDir
    /\ UNCHANGED <<envVars, mainPc, loads, messagesDir>>

\* A return of processAudioMessage on a download, temp-file or copy error;
\* which of them it was goes to the log only
OnRetrievalError(t, why) == Finish(t, "FailedRetrieval", "error")

\* What the download hands over: a raw GET of an encrypted reference gives
\* the ciphertext, the transport's download decrypts.
Downloaded(t) ==
    IF "httpGet" \in Range(t.hist) /\ t.evt.Audio = "enc"
    THEN "cipher" ELSE "plain"

DownloadReturn(i) ==
    /\ tasks[i].pc = "downloading"
    /\ \/ SetTask(i, OnRetrievalError(tasks[i], "dlFail"))
       \/ SetTask(i, [Goto(tasks[i], "createTemp", "dlOk")
                        EXCEPT !.body = Downloaded(tasks[i])])
    /\ UNCHANGED <<envVars, mainPc, EXCLUDED_NUMBERS, loads, messagesDir,
                   downloadsDir>>

\* FreeTempNames of a fixed file name instead of os.CreateTemp
FixedTempName(dir) == {1}

\* os.CreateTemp opens with O_EXCL: it returns a name no file of the
\* directory has.  No step depends on which free name it is, so of the
\* interchangeable free names the least stands for all.
FreeTempNames(dir) ==
    {n \in TempNames :
        dir[n] = "absent" /\ \A m \in 1 .. (n - 1) : dir[m] # "absent"}

CreateTemp(i) ==
    /\ tasks[i].pc = "createTemp"
    /\ \/ /\ SetTask(i, OnRetrievalError(tasks[i], "tmpFail"))
          /\ UNCHANGED messagesDir
       \/ \E n \in FreeTempNames(messagesDir) :
            /\ messagesDir' = [messagesDir EXCEPT ![n] = "empty"]
            /\ SetTask(i, [Goto(tasks[i], "copy", "tmpOk")
                             EXCEPT !.tempFilePath = n])
    /\ UNCHANGED <<envVars, mainPc, EXCLUDED_NUMBERS, loads, downloadsDir>>

\* io.Copy into the open temp file; a file unlinked meanwhile keeps no name
Copy(i) ==
    /\ tasks[i].pc = "copy"
    /\ \/ /\ SetTask(i, OnRetrievalError(tasks[i], "copyFail"))
          /\ UNCHANGED messagesDir
       \/ /\ SetTask(i, Goto(tasks[i], "transcribe", "copyOk"))
          /\ messagesDir' =
                IF messagesDir[tasks[i].tempFilePath] = "absent"
                THEN messagesDir
                ELSE [messagesDir EXCEPT
                        ![tasks[i].tempFilePath] = tasks[i].body]
    /\ UNCHANGED <<envVars, mainPc, EXCLUDED_NUMBERS, loads, downloadsDir>>

\* OnTranscribeError sending the user a reply about the error
OnTranscribeErrorReplies(t, why) ==
    [Finish(t, "FailedTranscription", "error")
        EXCEPT !.sent = Append(@, [chat |-> ChatOf(t.evt), text |-> <<"?">>])]

\* OnTranscribeError trying the transcription again
OnTranscribeErrorRetries(t, why) == Goto(t, "transcribe", "error")

\* OnTranscribeError without its return: the reply is sent all the same
OnTranscribeErrorGoesOn(t, why) == Goto(t, "reply", "error")

\* A return of processAudioMessage on TranscribeAudioGroq's error; the
\* error goes to the log only
OnTranscribeError(t, why) == Finish(t, "FailedTranscription", "error")

\* BackendOf choosing the backend function by the message
BackendOfByMessage(d, t) ==
    IF t.ID = 1 THEN "TranscribeAudioGroq" ELSE "CfTranscribe"

\* The backend function processAudioMessage calls: in both drafts the call
\* is written out as TranscribeAudioGroq; nothing calls CfTranscribe.
BackendOf(d, t) == "TranscribeAudioGroq"

\* the call of the backend function, noted in the task's history
Called(d, t) == Goto(t, "transcribe", BackendOf(d, t))

\* TranscribeAudioGroq up to client.Do: the key, the file, the request
TranscribeCall(i) ==
    /\ tasks[i].pc = "transcribe"
    /\ SetTask(i,
         LET t == Called(draft, tasks[i]) IN
         IF ~GROQ_API_KEY THEN OnTranscribeError(t, "noKey")
         ELSE IF messagesDir[t.tempFilePath] = "absent"
         THEN OnTranscribeError(t, "readFail")
         ELSE Goto(Goto(t, "awaitBackend", "post"), "awaitBackend",
                   messagesDir[t.tempFilePath]))
    /\ UNCHANGED <<envVars, mainPc, EXCLUDED_NUMBERS, loads, messagesDir,
                   downloadsDir>>

\* After a successful transcription the groq draft removes the temp file;
\* the wa draft has the removal commented out.
AfterTranscription(d) == IF d = "groq" THEN "remove" ELSE "reply"

\* processAudioMessage on what TranscribeAudioGroq returned
AfterTranscribe(d, t, ret) ==
    IF ret.err # NoErr THEN OnTranscribeError(t, ret.err.kind)
    ELSE [Goto(t, AfterTranscription(d), "api200")
            EXCEPT !.transcription = ret.text]

\* TranscribeAudioGroq from client.Do's return: an error or a timeout, a
\* status other than 200, a body that does not decode, or the text
TranscribeReturn(i) ==
    /\ tasks[i].pc = "awaitBackend"
    /\ \E answer \in PipeAnswers :
          SetTask(i, AfterTranscribe(draft, tasks[i], GroqAnswer(answer)))
    /\ UNCHANGED <<envVars, mainPc, EXCLUDED_NUMBERS, loads, messagesDir,
                   downloadsDir>>

\* os.Remove(tempFilePath): its error is only logged
Remove(i) ==
    /\ tasks[i].pc = "remove"
    /\ \/ /\ messagesDir[tasks[i].tempFilePath] # "absent"
          /\ messagesDir' = [messagesDir EXCEPT
                               ![tasks[i].tempFilePath] = "absent"]
          /\ SetTask(i, Goto(tasks[i], "reply", "removed"))
       \/ /\ SetTask(i, Goto(tasks[i], "reply", "removeFail"))
          /\ UNCHANGED messagesDir
    /\ UNCHANGED <<envVars, mainPc, EXCLUDED_NUMBERS, loads, downloadsDir>>

\* "*Transcrição automática:*" (the accented letters written unaccented)
ReplyLabel ==
    <<"*", "T", "r", "a", "n", "s", "c", "r", "i", "c", "a", "o", " ",
      "a", "u", "t", "o", "m", "a", "t", "i", "c", "a", ":", "*">>

\* fmt.Sprintf("*Transcrição automática:*\n\n_%s_", transcription)
ReplyText(transcription) ==
    ReplyLabel \o <<"\n", "\n", "_">> \o transcription \o <<"_">>

\* Reply without strings.TrimSpace
ReplyUntrimmed(evt, transcription) ==
    [chat |-> ChatOf(evt), text |-> ReplyText(transcription)]

\* strings.TrimSpace, the template and the chat: what SendMessage is given
Reply(evt, transcription) ==
    [chat |-> ChatOf(evt), text |-> ReplyText(TrimSpace(transcription))]

\* AfterSend sending again when the send failed
AfterSendRetries(t, ok) ==
    [(IF ok THEN Finish(t, "Completed", "sendOk")
      ELSE Goto(t, "reply", "sendFail"))
        EXCEPT !.sent = Append(@, Reply(t.evt, t.transcription))]

\* processAudioMessage from client.SendMessage's return: it logs the error
\* or the success, and returns
AfterSend(t, ok) ==
    [Finish(t, IF ok THEN "Completed" ELSE "FailedDelivery",
               IF ok THEN "sendOk" ELSE "sendFail")
        EXCEPT !.sent = Append(@, Reply(t.evt, t.transcription))]

\* client.SendMessage(chatID, replyText)
SendMessage(i) ==
    /\ tasks[i].pc = "reply"
    /\ \E ok \in BOOLEAN : SetTask(i, AfterSend(tasks[i], ok))
    /\ UNCHANGED <<envVars, mainPc, EXCLUDED_NUMBERS, loads, messagesDir,
                   downloadsDir>>

Next ==
    \/ MainBoot
    \/ MainLoad
    \/ MainStore
    \/ MainRegister
    \/ MainConnect
    \/ DeliverAny
    \/ \E i \in DOMAIN tasks : HandleMessage(i)
    \/ \E i \in DOMAIN tasks : DownloadReturn(i)
    \/ \E i \in DOMAIN tasks : CreateTemp(i)
    \/ \E i \in DOMAIN tasks : Copy(i)
    \/ \E i \in DOMAIN tasks : TranscribeCall(i)
    \/ \E i \in DOMAIN tasks : TranscribeReturn(i)
    \/ \E i \in DOMAIN tasks : Remove(i)
    \/ \E i \in DOMAIN tasks : SendMessage(i)

Spec == Init /\ [][Next]_vars

\* The groq draft downloads with http.Get, the default client, which has no
\* timeout, and copies from the response body it got from it: neither step
\* has to end.  The wa draft hands the download to the transport and copies
\* from what it returned.
NetworkReadEnds(d) == d = "wa"

\* What the scheduler and the timeouts give: main and every goroutine keep
\* running; the backend call ends by its answer or by its client's 60 s
\* timeout; the transport's calls return; a read from the network that has
\* no timeout ends only if the other side answers.
Fairness ==
    /\ WF_vars(MainBoot \/ MainLoad \/ MainStore \/ MainRegister \/ MainConnect)
    /\ \A i \in 1 .. MaxEvents :
          /\ WF_vars(i \in DOMAIN tasks /\ HandleMessage(i))
          /\ WF_vars(i \in DOMAIN tasks /\ NetworkReadEnds(draft)
                        /\ DownloadReturn(i))
          /\ WF_vars(i \in DOMAIN tasks /\ CreateTemp(i))
          /\ WF_vars(i \in DOMAIN tasks /\ NetworkReadEnds(draft) /\ Copy(i))
          /\ WF_vars(i \in DOMAIN tasks /\ TranscribeCall(i))
          /\ WF_vars(i \in DOMAIN tasks /\ TranscribeReturn(i))
          /\ WF_vars(i \in DOMAIN tasks /\ Remove(i))
          /\ WF_vars(i \in DOMAIN tasks /\ SendMessage(i))

FairSpec == Spec /\ Fairness

---------------------------------------------------------------------------
(* the backend functions called on their own *)

\* a pipeline that waits for TranscribeAudioGroq to return
AwaitingTask ==
    Goto(NewTask([IsGroup |-> FALSE, Sender |-> <<"a">>, Audio |-> "url",
                  MediaType |-> "other"], 1),
         "awaitBackend", "post")

\* TranscribeAudioGroq(audioPath, prompt, language), and what
\* processAudioMessage does with what it returns
CallGroq ==
    /\ call = NoCall
    /\ \E file \in AudioFiles, prompt \in Prompts, language \in Languages,
          answer \in Answers :
          LET ret == TranscribeAudioGroq(GROQ_API_KEY, file, answer)
          IN  call' = [fn |-> "TranscribeAudioGroq",
                       file |-> file, prompt |-> prompt,
                       language |-> language, answer |-> answer,
                       request |-> GroqRequest(GROQ_API_KEY, AudioPath, file,
                                               prompt, language),
                       ret |-> ret,
                       after |-> AfterTranscribe(draft, AwaitingTask, ret)]
    /\ UNCHANGED <<draft, GROQ_API_KEY, excludeFile, mainPc, EXCLUDED_NUMBERS,
                   loads, pipeVars>>

\* CfTranscribe(audioPath, model, language), with the map its call of
\* CFTranscriber.Transcribe returned
CallCf ==
    /\ call = NoCall
    /\ \E accountID \in BOOLEAN, apiToken \in BOOLEAN, file \in AudioFiles,
          answer \in Answers :
          call' = [fn |-> "CfTranscribe",
                   accountID |-> accountID, apiToken |-> apiToken,
                   file |-> file, answer |-> answer,
                   map |-> CfTranscriberTranscribe(file, answer),
                   ret |-> CfTranscribe(accountID, apiToken, file, answer)]
    /\ UNCHANGED <<draft, GROQ_API_KEY, excludeFile, mainPc, EXCLUDED_NUMBERS,
                   loads, pipeVars>>

NextCalls ==
    \/ CallGroq
    \/ CallCf

SpecCalls == Init /\ [][NextCalls]_vars
---------------------------------------------------------------------------
(* what a task has done, read off its history *)

Count(t, label) == Cardinality({k \in DOMAIN t.hist : t.hist[k] = label})
Did(t, label) == label \in Range(t.hist)

\* every occurrence of b in the history has an a before it
Before(t, a, b) ==
    \A k \in DOMAIN t.hist :
        t.hist[k] = b => \E j \in 1 .. (k - 1) : t.hist[j] = a

NBackendCalls(t) == Count(t, "post")
NReplies(t) == Len(t.sent)
NDownloads(t) == Count(t, "httpGet") + Count(t, "transportDownload")

AllTerminated == tasks # <<>> /\ \A i \in DOMAIN tasks : Terminated(tasks[i])

---------------------------------------------------------------------------
(* C1 *)

\* C1: once every dispatched event has reached its terminal state, no
\* temporary audio file remains in MESSAGES_DIR, whatever the exit paths
\* were.
C1_NoTempFileRemains ==
    AllTerminated => \A n \in TempNames : messagesDir[n] = "absent"

---------------------------------------------------------------------------
(* C2 *)

\* C2: an event that is group-origin or carries no audio message never
\* leaves handleMessage's first step unterminated, and no backend call and
\* no reply is ever made for it.
C2_GroupOrNonAudioSilent ==
    \A i \in DOMAIN tasks :
        (tasks[i].evt.IsGroup \/ tasks[i].evt.Audio = "none") =>
            /\ tasks[i].pc \in {"start", "done"}
            /\ NBackendCalls(tasks[i]) = 0
            /\ NReplies(tasks[i]) = 0

C2_Witness ==
    /\ \E i \in DOMAIN tasks :
        /\ Terminated(tasks[i])
        /\ tasks[i].evt.IsGroup
        /\ tasks[i].evt.Audio # "none"
        /\ tasks[i].evt.Sender \notin EXCLUDED_NUMBERS
    /\ \E j \in DOMAIN tasks :
        /\ tasks[j].outcome = "IgnoredNonAudio"
        /\ ~tasks[j].evt.IsGroup

---------------------------------------------------------------------------
(* C3 *)

---------------------------------------------------------------------------
(* C4 *)

\* C4: handleMessage ends an event of an excluded sender that is not from a
\* group as "Ignored: excluded sender", with no download, no backend call
\* and no reply.
C4_ExcludedSenderIgnored ==
    \A i \in DOMAIN tasks :
        ( /\ ~tasks[i].evt.IsGroup
          /\ tasks[i].evt.Sender \in EXCLUDED_NUMBERS
          /\ tasks[i].pc # "start" ) =>
            /\ tasks[i].outcome = "IgnoredExcluded"
            /\ NDownloads(tasks[i]) = 0
            /\ NBackendCalls(tasks[i]) = 0
            /\ NReplies(tasks[i]) = 0

---------------------------------------------------------------------------
(* C5 *)

Outcomes ==
    {"IgnoredGroup", "IgnoredExcluded", "IgnoredNonAudio", "FailedRetrieval",
     "FailedTranscription", "FailedDelivery", "Completed", "SaveFailed"}

\* The outcome of a terminated task processed alone, given the answers it
\* got from the network, the file system and the sink, which its history
\* records ("saved", "dlOk", "tmpOk", "copyOk", "api200", "sendOk").  Alone,
\* the temp file it wrote is there to be read, so a task whose copy succeeded
\* and whose key is set has called the backend: "none" where it has not.
SoloOutcome(d, excluded, key, t) ==
    IF SavesFirst(d, t.evt) /\ ~Did(t, "saved") THEN "SaveFailed"
    ELSE IF t.evt.IsGroup THEN "IgnoredGroup"
    ELSE IF t.evt.Sender \in excluded THEN "IgnoredExcluded"
    ELSE IF t.evt.Audio = "none" THEN "IgnoredNonAudio"
    ELSE IF ~(Did(t, "dlOk") /\ Did(t, "tmpOk") /\ Did(t, "copyOk"))
    THEN "FailedRetrieval"
    ELSE IF ~key THEN "FailedTranscription"
    ELSE IF ~Did(t, "post") THEN "none"
    ELSE IF ~Did(t, "api200") THEN "FailedTranscription"
    ELSE IF Did(t, "sendOk") THEN "Completed"
    ELSE "FailedDelivery"

\* the saved-audio path filepath.Join("downloads", ID + ".ogg")
SavePath(t) == t.ID

\* A task uses its temp file from os.CreateTemp to os.Remove, or to its
\* return where it does not get to remove it.
UsesTempFile(t) == t.pc \in {"copy", "transcribe", "awaitBackend", "remove"}

\* C5: every terminated event has one outcome, the one it has when
\* processed alone; the bytes a backend call uploads are the bytes its own
\* event downloaded; and no two events use the same temp file path at the
\* same time, or the same saved-audio path.
C5_EventsIndependent ==
    \A i \in DOMAIN tasks :
        /\ Terminated(tasks[i]) =>
              /\ tasks[i].outcome \in Outcomes
              /\ tasks[i].outcome =
                    SoloOutcome(draft, EXCLUDED_NUMBERS, GROQ_API_KEY, tasks[i])
        /\ ~Terminated(tasks[i]) => tasks[i].outcome = ""
        /\ \A k \in DOMAIN tasks[i].hist :
              (k > 1 /\ tasks[i].hist[k - 1] = "post") =>
                  tasks[i].hist[k] = tasks[i].body
        /\ \A j \in DOMAIN tasks :
              i # j =>
                  /\ (UsesTempFile(tasks[i]) /\ UsesTempFile(tasks[j])) =>
                        tasks[i].tempFilePath # tasks[j].tempFilePath
                  /\ SavePath(tasks[i]) # SavePath(tasks[j])

\* two events that held temp files at the same time have both terminated,
\* one failed and one completed
C5_Witness ==
    \E i, j \in DOMAIN tasks :
        /\ tasks[i].outcome = "FailedTranscription"
        /\ tasks[j].outcome = "Completed"
        /\ tasks[i].tempFilePath # 0
        /\ tasks[j].tempFilePath # 0
        /\ tasks[i].tempFilePath # tasks[j].tempFilePath

---------------------------------------------------------------------------
(* C6 *)

\* C6: while the client runs, the transport can deliver the next message
\* event whatever the earlier pipelines are doing: the callback waits for
\* none of them.
C6_DeliveryNeverBlocked ==
    (mainPc = "running" /\ Len(tasks) < MaxEvents) => ENABLED DeliverAny

\* an event was delivered and has started its pipeline while an earlier one
\* is blocked in its backend call
C6_Witness ==
    \E i, j \in DOMAIN tasks :
        /\ i < j
        /\ tasks[i].pc = "awaitBackend"
        /\ tasks[j].pc = "downloading"

---------------------------------------------------------------------------
(* C7 *)

\* C7: at most one transcription-backend call is made for an event.
C7_OneBackendCall == \A i \in DOMAIN tasks : NBackendCalls(tasks[i]) <= 1

\* a backend call failed and the event ended there
C7_Witness ==
    \E i \in DOMAIN tasks :
        /\ tasks[i].outcome = "FailedTranscription"
        /\ NBackendCalls(tasks[i]) = 1

---------------------------------------------------------------------------
(* C8 *)

\* C8: the audio of an encrypted media reference is never fetched with a raw
\* HTTP GET, and no ciphertext is uploaded to the backend.
C8_EncryptedNeverRawGet ==
    \A i \in DOMAIN tasks :
        tasks[i].evt.Audio = "enc" =>
            ~Did(tasks[i], "httpGet") /\ ~Did(tasks[i], "cipher")

---------------------------------------------------------------------------
(* C9 *)

\* C9: no event is dispatched into the pipeline while the backend's
\* credential is unset: the process does not get to accept events.
C9_NoDispatchWithoutCredential == tasks # <<>> => GROQ_API_KEY

---------------------------------------------------------------------------
(* C10 *)

SendLabels == {"sendOk", "sendFail"}

\* C10: within an event the backend is called only after the download, the
\* temp file and the copy have succeeded, in that order and after the
\* filters; and the reply is sent only after the backend call has returned
\* its transcript.
C10_StagesInOrder ==
    \A i \in DOMAIN tasks :
        LET t == tasks[i] IN
        /\ Before(t, "filtersPassed", "httpGet")
        /\ Before(t, "filtersPassed", "transportDownload")
        /\ Before(t, "httpGet", "dlOk") \/ Before(t, "transportDownload", "dlOk")
        /\ Before(t, "dlOk", "tmpOk")
        /\ Before(t, "tmpOk", "copyOk")
        /\ Before(t, "copyOk", "post")
        /\ Before(t, "post", "api200")
        /\ \A l \in SendLabels : Before(t, "api200", l)
        /\ NReplies(t) = Count(t, "sendOk") + Count(t, "sendFail")

C10_Witness ==
    \E i \in DOMAIN tasks :
        /\ tasks[i].outcome = "Completed"
        /\ NReplies(tasks[i]) = 1

---------------------------------------------------------------------------
(* C11 *)

\* id stands on a line of the file with nothing but whitespace around it:
\* the line is data[i .. j], between line feeds or the ends of the file, and
\* id is data[a .. b], beginning and ending with a character that is not
\* whitespace.
AppearsOnLine(file, id) ==
    /\ file.exists
    /\ \E i, j \in DOMAIN file.data :
          /\ i <= j
          /\ i = 1 \/ file.data[i - 1] = "\n"
          /\ j = Len(file.data) \/ file.data[j + 1] = "\n"
          /\ \A k \in i .. j : file.data[k] # "\n"
          /\ \E a \in i .. j : \E b \in a .. j :
                /\ SubSeq(file.data, a, b) = id
                /\ file.data[a] \notin Whitespace
                /\ file.data[b] \notin Whitespace
                /\ \A k \in (i .. (a - 1)) \cup ((b + 1) .. j) :
                      file.data[k] \in Whitespace

\* C11: once main has loaded exclude.txt, the lookup of an identifier is
\* true exactly when the identifier stands on some line of the file with
\* only whitespace around it; it is false for every identifier, the empty
\* one included, when the file is absent, empty or all blank; and the load
\* does not stop main.
C11_LookupIsFileMembership ==
    loads >= 1 =>
        /\ mainPc = "store"
        /\ \A id \in Strings(FileChars, MaxFileLen) :
              IsExcluded(EXCLUDED_NUMBERS, id) <=> AppearsOnLine(excludeFile, id)
        /\ \A id \in EXCLUDED_NUMBERS : AppearsOnLine(excludeFile, id)

\* a file whose one entry is padded with whitespace and followed by a blank
\* line was loaded
C11_Witness ==
    /\ loads = 1
    /\ excludeFile = FileOf(<<" ", "a", "\n">>)
    /\ IsExcluded(EXCLUDED_NUMBERS, <<"a">>)
    /\ ~IsExcluded(EXCLUDED_NUMBERS, <<" ", "a">>)
    /\ ~IsExcluded(EXCLUDED_NUMBERS, <<>>)
---------------------------------------------------------------------------
(* C12 *)

\* the call reached the backend and got a response of another status than
\* 200
GotNon200 ==
    /\ call.fn \in {"TranscribeAudioGroq", "CfTranscribe"}
    /\ call.file.exists
    /\ ~call.answer.err
    /\ call.answer.status # 200
    /\ call.fn = "TranscribeAudioGroq" => GROQ_API_KEY
    /\ call.fn = "CfTranscribe" => call.accountID /\ call.apiToken

\* the error's text ends with exactly the bytes of the body
CarriesBody(err, raw) ==
    /\ err # NoErr
    /\ Len(err.msg) >= Len(raw)
    /\ SubSeq(err.msg, Len(err.msg) - Len(raw) + 1, Len(err.msg)) = raw
    /\ SubSeq(err.msg, 1, Len(err.msg) - Len(raw)) = FailedPrefix

\* C12: on a response of a status other than 200, TranscribeAudioGroq,
\* CFTranscriber.Transcribe and CfTranscribe return an error that carries
\* the response body and no transcript (no map), and processAudioMessage
\* ends the event there without a reply.
C12_Non200IsErrorWithBody ==
    GotNon200 =>
        /\ CarriesBody(call.ret.err, call.answer.raw)
        /\ call.ret.text = <<>>
        /\ call.fn = "CfTranscribe" =>
              /\ CarriesBody(call.map.err, call.answer.raw)
              /\ call.map.result = NoMap
        /\ call.fn = "TranscribeAudioGroq" =>
              /\ Terminated(call.after)
              /\ call.after.outcome = "FailedTranscription"
              /\ call.after.sent = <<>>

\* a 204 whose body would decode to a transcript went to TranscribeAudioGroq
C12_Witness ==
    /\ GotNon200
    /\ call.fn = "TranscribeAudioGroq"
    /\ call.answer.status = 204
    /\ call.answer.raw = <<"x">>
    /\ call.answer.doc = DocDecodingTo(<<" ", "o", "i", "\n">>)
---------------------------------------------------------------------------
(* C13 *)

\* CfTranscribe had its credentials and its file and got a 200
CfGot200 ==
    /\ call.fn = "CfTranscribe"
    /\ call.accountID /\ call.apiToken
    /\ call.file.exists
    /\ ~call.answer.err
    /\ call.answer.status = 200

\* the body is a JSON object whose member result is an object with a
\* string member text
HasNestedText(doc) ==
    doc.top = "object" /\ doc.result.t = "obj" /\ doc.result.text.t = "str"

\* C13: on a 200 whose body has result.text as a string, CfTranscribe
\* returns exactly that text and no error; on every other 200 it returns an
\* error and the empty transcript, the error being "transcription text not
\* found in response" whenever the body decoded to a map.
C13_CfTextOrShapeError ==
    CfGot200 =>
        IF HasNestedText(call.answer.doc)
        THEN /\ call.ret.text = call.answer.doc.result.text.s
             /\ call.ret.err = NoErr
        ELSE /\ call.ret.text = <<>>
             /\ call.ret.err # NoErr
             /\ call.answer.doc.top \in {"object", "null"} =>
                   call.ret.err.kind = "shape"

\* a 200 whose body has a string text beside a result that is a string, not
\* an object
C13_Witness ==
    /\ CfGot200
    /\ call.answer.doc.top = "object"
    /\ call.answer.doc.text.t = "str"
    /\ call.answer.doc.text.s # <<>>
    /\ call.answer.doc.result.t = "str"
    /\ call.answer.doc.result.s # <<>>
    /\ call.ret.err.kind = "shape"

---------------------------------------------------------------------------
(* C14 *)

\* b is T without its leading and trailing whitespace: a stretch of T that
\* neither begins nor ends with whitespace and has only whitespace before
\* and after it
IsTrimOf(b, T) ==
    \E i \in 1 .. (Len(T) + 1) : \E j \in 0 .. Len(T) :
        /\ b = SubSeq(T, i, j)
        /\ \A k \in 1 .. (i - 1) : T[k] \in Whitespace
        /\ \A k \in (j + 1) .. Len(T) : T[k] \in Whitespace
        /\ b # <<>> => (b[1] \notin Whitespace /\ b[Len(b)] \notin Whitespace)

\* text is the bold label, a blank line, and b between underscores
IsTemplateOf(text, b) ==
    LET n == Len(ReplyLabel) IN
    /\ Len(text) = n + 4 + Len(b)
    /\ SubSeq(text, 1, n) = ReplyLabel
    /\ text[1] = "*" /\ text[n] = "*"
    /\ text[n + 1] = "\n" /\ text[n + 2] = "\n"
    /\ text[n + 3] = "_"
    /\ SubSeq(text, n + 4, n + 3 + Len(b)) = b
    /\ text[Len(text)] = "_"

\* C14: every text handed to SendMessage is the template applied to the
\* transcript the backend returned for that event, with its leading and
\* trailing whitespace removed, and it is sent to the chat of the event's
\* sender; an event that completed has had one such text sent.
C14_ReplyIsTemplateOfTrimmed ==
    \A i \in DOMAIN tasks :
        /\ tasks[i].outcome = "Completed" => Len(tasks[i].sent) = 1
        /\ \A k \in DOMAIN tasks[i].sent :
              /\ ~tasks[i].evt.IsGroup
              /\ tasks[i].sent[k].chat = tasks[i].evt.Sender
              /\ LET text == tasks[i].sent[k].text
                     body == SubSeq(text, Len(ReplyLabel) + 4, Len(text) - 1)
                 IN  /\ IsTrimOf(body, tasks[i].transcription)
                     /\ IsTemplateOf(text, body)

\* a transcript with whitespace on both sides was sent, and beside it an
\* empty one
C14_Witness ==
    /\ \E i \in DOMAIN tasks :
        /\ tasks[i].outcome = "Completed"
        /\ tasks[i].transcription = <<" ", "o", "i", "\n">>
        /\ Len(tasks[i].sent[1].text) = Len(ReplyLabel) + 6
    /\ \E j \in DOMAIN tasks :
        /\ tasks[j].outcome = "Completed"
        /\ tasks[j].transcription = <<>>

---------------------------------------------------------------------------
(* C15 *)

\* the values of the form's fields of a name, one per occurrence
FieldsNamed(form, name) == {k \in DOMAIN form : form[k].name = name}

\* the form has the field once, with this value
HasField(form, name, value) ==
    /\ Cardinality(FieldsNamed(form, name)) = 1
    /\ \A k \in FieldsNamed(form, name) : form[k].value = value

\* C15: whenever TranscribeAudioGroq has its key and its file, it posts a
\* form that has the prompt field exactly when the prompt is not empty and
\* the language field exactly when the language is not empty, each with the
\* argument as its value, and that always has the file (the file's bytes
\* under the base name of the path), model, response_format = "json" and
\* temperature = "0.0".
C15_FormFields ==
    (call.fn = "TranscribeAudioGroq" /\ GROQ_API_KEY /\ call.file.exists) =>
        LET form == call.request.form IN
        /\ call.request.posted
        /\ (FieldsNamed(form, "prompt") # {}) <=> (call.prompt # "")
        /\ call.prompt # "" => HasField(form, "prompt", call.prompt)
        /\ (FieldsNamed(form, "language") # {}) <=> (call.language # "")
        /\ call.language # "" => HasField(form, "language", call.language)
        /\ HasField(form, "file", call.file.data)
        /\ \A k \in FieldsNamed(form, "file") : form[k].filename = "1.ogg"
        /\ HasField(form, "model", "whisper-large-v3")
        /\ HasField(form, "response_format", "json")
        /\ HasField(form, "temperature", "0.0")

\* a call with a language and an empty prompt, as the pipeline makes it when
\* WHISPER_PROMPT is unset
C15_Witness ==
    /\ call.fn = "TranscribeAudioGroq"
    /\ call.request.posted
    /\ call.prompt = ""
    /\ call.language = "pt"
    /\ Len(call.request.form) = 5

---------------------------------------------------------------------------
(* C16 *)

BackendFunctions == {"TranscribeAudioGroq", "CfTranscribe"}

\* the backend functions an event's pipeline has called
CalledBy(t) == Range(t.hist) \cap BackendFunctions

\* C16: all the events of a run that call a backend call the same one, and
\* no event calls a backend function twice or calls both.
C16_OneBackendPerRun ==
    /\ Cardinality(UNION {CalledBy(tasks[i]) : i \in DOMAIN tasks}) <= 1
    /\ \A i \in DOMAIN tasks :
          /\ Cardinality(CalledBy(tasks[i])) <= 1
          /\ \A f \in BackendFunctions : Count(tasks[i], f) <= 1
          /\ NBackendCalls(tasks[i]) >= 1 => CalledBy(tasks[i]) # {}

\* two events of one run have each had their backend call answered
C16_Witness ==
    \E i, j \in DOMAIN tasks :
        /\ i < j
        /\ Did(tasks[i], "api200")
        /\ tasks[j].outcome = "FailedTranscription"
        /\ NBackendCalls(tasks[j]) = 1
        /\ CalledBy(tasks[i]) = CalledBy(tasks[j])

---------------------------------------------------------------------------
(* C17 *)

\* C17: once handleMessage has handled an event from a group or from an
\* excluded sender, the event has terminated with no download made and no
\* file created or written for it, neither a temp file in MESSAGES_DIR nor
\* a saved audio in downloads/.
C17_FiltersBeforeSideEffects ==
    \A i \in DOMAIN tasks :
        ( /\ \/ tasks[i].evt.IsGroup
             \/ IsExcluded(EXCLUDED_NUMBERS, tasks[i].evt.Sender)
          /\ tasks[i].pc # "start" ) =>
            /\ Terminated(tasks[i])
            /\ NDownloads(tasks[i]) = 0
            /\ tasks[i].tempFilePath = 0
            /\ ~Did(tasks[i], "saved")
            /\ SavePath(tasks[i]) \notin downloadsDir

---------------------------------------------------------------------------
(* C18 *)

\* C18: every dispatched event eventually reaches a terminal state; no
\* step, the retrieval included, leaves its pipeline suspended forever.
C18_EveryEventTerminates ==
    \A i \in 1 .. MaxEvents :
        (i \in DOMAIN tasks) ~> (i \in DOMAIN tasks /\ Terminated(tasks[i]))

---------------------------------------------------------------------------
(* C19 *)

\* C19: at most one reply is sent for an event: a send that failed ends the
\* event as "Failed: delivery" with that one attempt, a send that succeeded
\* ends it as "Completed", and an event that has ended sends nothing more.
C19_AtMostOneReply ==
    \A i \in DOMAIN tasks :
        /\ NReplies(tasks[i]) <= 1
        /\ Did(tasks[i], "sendFail") =>
              /\ Terminated(tasks[i])
              /\ tasks[i].outcome = "FailedDelivery"
              /\ ~Did(tasks[i], "sendOk")
        /\ Did(tasks[i], "sendOk") =>
              Terminated(tasks[i]) /\ tasks[i].outcome = "Completed"

\* one event's send failed and another's succeeded
C19_Witness ==
    \E i, j \in DOMAIN tasks :
        /\ tasks[i].outcome = "FailedDelivery"
        /\ NReplies(tasks[i]) = 1
        /\ tasks[j].outcome = "Completed"
        /\ NReplies(tasks[j]) = 1

---------------------------------------------------------------------------
(* C20 *)

\* C20: EXCLUDED_NUMBERS is assigned once, by main's load, while no event
\* handler is registered and no pipeline exists; it is assigned by the time
\* the handler is registered; and no other step, a lookup included, changes
\* it.
C20_ExclusionSetWrittenOnce ==
    [][ /\ loads' <= 1
        /\ (loads' # loads \/ EXCLUDED_NUMBERS' # EXCLUDED_NUMBERS) =>
              /\ mainPc = "load"
              /\ loads = 0 /\ loads' = 1
              /\ tasks = <<>> /\ tasks' = <<>>
        /\ (mainPc' \in {"connect", "running"} \/ tasks' # <<>>) =>
              loads' = 1 ]_vars

\* two pipelines have looked their senders up, one of them a sender that is
\* not in the set, and the set is what the load made it
C20_Witness ==
    /\ loads = 1
    /\ EXCLUDED_NUMBERS = {<<"a">>}
    /\ \E i, j \in DOMAIN tasks :
          /\ tasks[i].outcome = "IgnoredExcluded"
          /\ tasks[j].evt.Sender = <<"b">>
          /\ Did(tasks[j], "filtersPassed")

====
